---- MODULE Spec2Model ----
(***************************************************************************)
(* Path-ORAM client/server pair (src/server.py, src/client.py).            *)
(*                                                                         *)
(* The state is the Server object (N, Z, num_of_buckets, L, tree) and the  *)
(* Client object (stash, position_map, nonces; cipher i holds key i).      *)
(* One action per public operation of the Client; every action carries out *)
(* the whole of Client.Access, including the exception that may end it     *)
(* half way and the partial state that exception leaves behind.            *)
(*                                                                         *)
(* Bytes are naturals in 0..255, byte strings are sequences of them, and a *)
(* Python str of ASCII characters is the sequence of its character codes.  *)
(***************************************************************************)
EXTENDS Integers, Sequences, FiniteSets, TLC

\* ------------------------------------------------------------------ bounds

\* Largest block capacity N, bucket capacity Z and bucket count N // Z of
\* a constructed Server, and the number of Access calls in one behaviour.
MaxN == 4
MaxZ == 2
MaxBuckets == 3
MaxOps == 3
\* The geometry specification: Z = 1, bucket counts up to MaxGeomBuckets and
\* MaxGeomOps Access calls.
MaxGeomBuckets == 5
MaxGeomOps == 1
\* The tampering specification: Z = 1, N up to MaxTamperN, MaxOps Access
\* calls and MaxTamper nodes altered by the server.
MaxTamperN == 3
MaxTamper == 1
\* The specification with invalid arguments: MaxInvalidOps Access calls.
MaxInvalidOps == 2
\* The construction specification: Server(N, Z) for N up to MaxBuildN,
\* followed by MaxBuildOps Access calls.
MaxBuildN == 4
MaxBuildOps == 1

\* ------------------------------------------------------------ Python bits

\* Python's None; no byte is negative, so it differs from every byte string.
None == <<-1>>

Pow2(k) == 2 ^ k

\* s[i:j] of Python (0-based, end exclusive, clamped to the length).
Slice(s, i, j) ==
    LET hi == IF j < Len(s) THEN j ELSE Len(s)
    IN  IF i >= hi THEN << >> ELSE SubSeq(s, i + 1, hi)

\* int.to_bytes(4, 'big')
to_bytes4(n) ==
    << (n \div 16777216) % 256, (n \div 65536) % 256, (n \div 256) % 256, n % 256 >>

\* int.from_bytes(b, 'big'); the empty byte string gives 0.
RECURSIVE from_bytes(_)
from_bytes(b) ==
    IF b = << >> THEN 0
    ELSE 256 * from_bytes(SubSeq(b, 1, Len(b) - 1)) + b[Len(b)]

\* b"||"
Separator == <<124, 124>>

\* sep.join(parts)
RECURSIVE Join(_, _)
Join(sep, parts) ==
    IF parts = << >> THEN << >>
    ELSE IF Len(parts) = 1 THEN parts[1]
    ELSE parts[1] \o sep \o Join(sep, Tail(parts))

\* b.split(sep): cut at every occurrence of sep, scanning from the left.
RECURSIVE SplitFrom(_, _, _)
SplitFrom(b, sep, cur) ==
    IF b = << >> THEN << cur >>
    ELSE IF Len(b) >= Len(sep) /\ SubSeq(b, 1, Len(sep)) = sep
         THEN << cur >> \o SplitFrom(SubSeq(b, Len(sep) + 1, Len(b)), sep, << >>)
         ELSE SplitFrom(Tail(b), sep, Append(cur, b[1]))

Split(b, sep) == SplitFrom(b, sep, << >>)

\* bin(x)[2:] for x >= 0, as a sequence of bits, most significant first.
RECURSIVE Bin(_)
Bin(x) == IF x < 2 THEN << x >> ELSE Append(Bin(x \div 2), x % 2)

\* str.zfill(width): pads on the left, never cuts.
RECURSIVE ZFill(_, _)
ZFill(s, width) == IF Len(s) >= width THEN s ELSE ZFill(<< 0 >> \o s, width)

\* math.ceil(math.log(n, 2)) for n >= 1: the least k with 2^k >= n.
RECURSIVE CeilLog2From(_, _)
CeilLog2From(n, k) == IF Pow2(k) >= n THEN k ELSE CeilLog2From(n, k + 1)

CeilLog2(n) == CeilLog2From(n, 0)

\* ------------------------------------------------------------ Block codec

Block(address, leaf_x, data, dummy_flag) ==
    [a |-> address, x |-> leaf_x, data |-> data, dummy_flag |-> dummy_flag]

\* "----"
DummyData == <<45, 45, 45, 45>>

\* Block(N + 1, 0, "----", True)
DummyBlock(N) == Block(N + 1, 0, DummyData, TRUE)

\* Block.serialize; data.encode('utf-8') of None raises AttributeError, which
\* the callers test for with CanSerialize.
CanSerialize(block) == block.data # None

serialize(block) ==
    to_bytes4(block.a) \o to_bytes4(block.x) \o block.data
        \o << IF block.dummy_flag THEN 49 ELSE 48 >>

deserialize_block(block_data) ==
    Block(from_bytes(Slice(block_data, 0, 4)),
          from_bytes(Slice(block_data, 4, 8)),
          Slice(block_data, 8, 12),
          Slice(block_data, 12, 13) = << 49 >>)

\* b"||".join([block.serialize() for block in blocks])
EncodeBucket(blocks) == Join(Separator, [k \in DOMAIN blocks |-> serialize(blocks[k])])

\* [deserialize_block(block) for block in decrypted_bucket.split(b"||")]
DeserializeAll(pieces) == [k \in DOMAIN pieces |-> deserialize_block(pieces[k])]

DecodeBucket(bytes) == DeserializeAll(Split(bytes, Separator))

\* --------------------------------------------------------------- AES-GCM

\* Length of the authentication tag AESGCM.encrypt appends.
TagLen == 16

\* AESGCM(keys[key]).encrypt(nonce, data, associated_data): the ciphertext
\* is kept as what went into it; "intact" is false once the server has
\* altered the bytes.
Encrypt(key, nonce, data, ad) ==
    [key |-> key, nonce |-> nonce, ad |-> ad, data |-> data, intact |-> TRUE]

\* A variant of DecryptOk: a cipher without authentication, which decrypts
\* whatever it is given.
DecryptUnauthenticated(key, nonce, ct, ad) == TRUE

\* AESGCM.decrypt raises InvalidTag unless key, nonce and associated data
\* are those of the encryption and the bytes are unaltered.
DecryptOk(key, nonce, ct, ad) ==
    ct.intact /\ ct.key = key /\ ct.nonce = nonce /\ ct.ad = ad

\* len(server.tree[i])
CtLen(ct) == Len(ct.data) + TagLen

\* os.urandom(12) replacing the nonce `old` of a node: a value that node has
\* not had before (96 random bits repeat with probability 2^-96).  Nonces
\* are numbered in the order a node receives them.
FreshNonce(old) == old + 1

\* ---------------------------------------------------------------- Server

\* Server.__init__ fields other than the tree.
ServerL(N, Z) == CeilLog2(N \div Z) - 1

\* A variant of NumLeaves: random.randint(0, pow(2, L)), the upper end
\* included.
NumLeavesInclusive(L) == Pow2(L) + 1

NumLeaves(L) == Pow2(L)

\* ------------------------------------------------------------------ paths

\* Client.get_path_leaf_to_root: the flat indices from the leaf up to node 0.
RECURSIVE ClimbFrom(_)
ClimbFrom(i) == IF i = 0 THEN << 0 >> ELSE << i >> \o ClimbFrom((i - 1) \div 2)

\* A variant of get_path_leaf_to_root: the same nodes from the root down.
get_path_root_to_leaf(leaf_index, L) ==
    LET p == ClimbFrom((Pow2(L + 1) - 1 - Pow2(L)) + leaf_index)
    IN  [k \in DOMAIN p |-> p[Len(p) + 1 - k]]

get_path_leaf_to_root(leaf_index, L) ==
    LET total_nodes == Pow2(L + 1) - 1
        first_leaf_index == total_nodes - Pow2(L)
    IN  ClimbFrom(first_leaf_index + leaf_index)

\* The indices Access uses in server.tree[i] while reading: node 0, then one
\* child per character of bin(x)[2:].zfill(L), the last one read as the leaf.
RECURSIVE Descend(_, _)
Descend(i, bits) ==
    IF bits = << >> THEN << i >>
    ELSE << i >> \o Descend(IF bits[1] = 0 THEN 2 * i + 1 ELSE 2 * i + 2, Tail(bits))

ReadNodes(x, L) == Descend(0, ZFill(Bin(x), L))

\* ----------------------------------------------------------- Client.Access

\* The subsequence of s at the positions in `keep`, in order.
RECURSIVE SubSeqAt(_, _, _)
SubSeqAt(s, keep, k) ==
    IF k > Len(s) THEN << >>
    ELSE (IF k \in keep THEN << s[k] >> ELSE << >>) \o SubSeqAt(s, keep, k + 1)

\* Read phase: fetch, decrypt and decode each node in turn into the stash.
\* acc = [stash, reads, io, exc]; an exception stops the loop and keeps what
\* was already appended to the stash.  io is the sequence of server.tree[i]
\* uses of the whole call, reads and writes alike, in the order made.
RECURSIVE ReadPhase(_, _, _, _)
ReadPhase(nodes, tree, nonces, acc) ==
    IF nodes = << >> THEN acc
    ELSE IF nodes[1] \notin DOMAIN tree
    THEN [acc EXCEPT !.reads = Append(@, nodes[1]),
                     !.io = Append(@, [op |-> "read", node |-> nodes[1]]),
                     !.exc = "IndexError"]
    ELSE IF ~DecryptOk(nodes[1], nonces[nodes[1]], tree[nodes[1]], nodes[1])
    THEN [acc EXCEPT !.reads = Append(@, nodes[1]),
                     !.io = Append(@, [op |-> "read", node |-> nodes[1]]),
                     !.exc = "InvalidTag"]
    ELSE ReadPhase(Tail(nodes), tree, nonces,
                   [acc EXCEPT !.reads = Append(@, nodes[1]),
                               !.io = Append(@, [op |-> "read", node |-> nodes[1]]),
                               !.stash = @ \o DecodeBucket(tree[nodes[1]].data)])

\* "read block a from stash": the position of the first block with address
\* a, 0 when there is none (block_idx = -1).
FindBlock(stash, a) ==
    IF \E k \in DOMAIN stash : stash[k].a = a
    THEN CHOOSE k \in DOMAIN stash :
            stash[k].a = a /\ \A j \in 1..(k - 1) : stash[j].a # a
    ELSE 0

\* "Update block": write replaces or appends, delete removes
\* self.stash[block_idx], which for block_idx = -1 is the last element; any
\* other op leaves the stash alone.
UpdateStash(stash, op, a, new_x, data_, block_idx) ==
    IF op = "write"
    THEN IF block_idx > 0
         THEN [stash EXCEPT ![block_idx] = Block(a, new_x, data_, FALSE)]
         ELSE Append(stash, Block(a, new_x, data_, FALSE))
    ELSE IF op = "delete"
    THEN LET gone == IF block_idx > 0 THEN block_idx ELSE Len(stash)
         IN  SubSeqAt(stash, DOMAIN stash \ {gone}, 1)
    ELSE stash

\* A variant of BlocksToAdd: one block a bucket at most.
BlocksToAddOne(stash, position_map, path_back, level, L, Z) ==
    LET eligible == {k \in DOMAIN stash :
                        /\ ~stash[k].dummy_flag
                        /\ get_path_leaf_to_root(position_map[stash[k].a], L)[level]
                               = path_back[level]}
    IN  {k \in eligible : \A j \in eligible : j >= k}

\* The stash positions Access puts into the bucket of path_back[level]: the
\* first Z real blocks whose own path has the same node at that level.
BlocksToAdd(stash, position_map, path_back, level, L, Z) ==
    LET eligible == {k \in DOMAIN stash :
                        /\ ~stash[k].dummy_flag
                        /\ get_path_leaf_to_root(position_map[stash[k].a], L)[level]
                               = path_back[level]}
    IN  {k \in eligible : Cardinality({j \in eligible : j < k}) < Z}

\* Write phase, one level after the other from the leaf (level 1) to the
\* root.  st = [stash, nonces, tree, writes, io, exc]; an exception stops the
\* loop and keeps what the earlier statements already changed.
RECURSIVE WritePhase(_, _, _, _, _, _)

\* The end of one level: the ciphertext is stored and the real blocks put
\* into it leave the stash.
PutBucket(level, path_back, position_map, N, Z, st, chosen, new_nonce, ct) ==
    WritePhase(level + 1, path_back, position_map, N, Z,
        [st EXCEPT
            !.nonces[path_back[level]] = new_nonce,
            !.tree[path_back[level]] = ct,
            !.writes = Append(@, [node |-> path_back[level], len |-> CtLen(ct)]),
            !.io = Append(@, [op |-> "write", node |-> path_back[level]]),
            !.stash = SubSeqAt(st.stash, DOMAIN st.stash \ chosen, 1)])

\* self.nonces[node] = new_nonce, then serialization and encryption.
FillBucket(level, path_back, position_map, N, Z, st, chosen, blocks_to_add) ==
    IF path_back[level] \notin DOMAIN st.nonces
    THEN [st EXCEPT !.exc = "IndexError"]
    ELSE IF \E k \in DOMAIN blocks_to_add : ~CanSerialize(blocks_to_add[k])
    THEN [st EXCEPT !.nonces[path_back[level]] = FreshNonce(@),
                    !.exc = "AttributeError"]
    ELSE PutBucket(level, path_back, position_map, N, Z, st, chosen,
                   FreshNonce(st.nonces[path_back[level]]),
                   Encrypt(path_back[level], FreshNonce(st.nonces[path_back[level]]),
                           EncodeBucket(blocks_to_add), path_back[level]))

\* "pad bucket with dummy blocks"
PadBucket(level, path_back, position_map, N, Z, st, chosen) ==
    FillBucket(level, path_back, position_map, N, Z, st, chosen,
               SubSeqAt(st.stash, chosen, 1)
                   \o [k \in 1..(Z - Cardinality(chosen)) |-> DummyBlock(N)])

WritePhase(level, path_back, position_map, N, Z, st) ==
    IF level > Len(path_back) THEN st
    ELSE IF \E k \in DOMAIN st.stash :
                ~st.stash[k].dummy_flag /\ st.stash[k].a \notin DOMAIN position_map
    THEN [st EXCEPT !.exc = "KeyError"]
    ELSE PadBucket(level, path_back, position_map, N, Z, st,
                   BlocksToAdd(st.stash, position_map, path_back, level,
                               Len(path_back) - 1, Z))

\* A variant of ClearDummies: the stash is left as the eviction left it.
KeepDummies(stash) == stash

\* "clear stash of dummies"
ClearDummies(stash) ==
    SubSeqAt(stash, {k \in DOMAIN stash : ~stash[k].dummy_flag}, 1)

\* No leaf: the old leaf of an Access that ended before reading it.
NoLeaf == -1

\* What Access leaves behind and reports once the write phase has ended in
\* the state wr.
AccessEnd(x, new_x, position_map, rd, data, wr) ==
    [stash |-> IF wr.exc = "" THEN ClearDummies(wr.stash) ELSE wr.stash,
     position_map |-> position_map,
     nonces |-> wr.nonces, tree |-> wr.tree,
     x |-> x, new_x |-> new_x, exc |-> wr.exc,
     ret |-> IF wr.exc = "" THEN data ELSE None,
     reads |-> rd.reads, writes |-> wr.writes, io |-> wr.io]

\* Access from "read block a from stash" on, block_idx being the position
\* of block a in the stash rd.stash the read phase produced.
AccessLocate(op, a, data_, x, new_x, position_map, srv, cl, rd, block_idx) ==
    AccessEnd(x, new_x, position_map, rd,
              IF block_idx > 0 THEN rd.stash[block_idx].data ELSE None,
              WritePhase(1, get_path_leaf_to_root(x, srv.L), position_map,
                         srv.N, srv.Z,
                         [stash |-> UpdateStash(rd.stash, op, a, new_x, data_, block_idx),
                          nonces |-> cl.nonces, tree |-> srv.tree,
                          writes |-> << >>, io |-> rd.io, exc |-> ""]))

\* Access after the read phase, which ended in rd.
AccessRead(op, a, data_, x, new_x, position_map, srv, cl, rd) ==
    IF rd.exc # ""
    THEN [stash |-> rd.stash, position_map |-> position_map,
          nonces |-> cl.nonces, tree |-> srv.tree,
          x |-> x, new_x |-> new_x, exc |-> rd.exc, ret |-> None,
          reads |-> rd.reads, writes |-> << >>, io |-> rd.io]
    ELSE AccessLocate(op, a, data_, x, new_x, position_map, srv, cl, rd,
                      FindBlock(rd.stash, a))

\* Client.Access(op, a, data_, server) with new_x the value random.randint
\* returns.  The result is the state the call leaves behind, what it
\* returned or raised, and the server indices it read and wrote.
Access(op, a, data_, new_x, srv, cl) ==
    IF a \notin DOMAIN cl.position_map
    THEN [stash |-> cl.stash, position_map |-> cl.position_map,
          nonces |-> cl.nonces, tree |-> srv.tree,
          x |-> NoLeaf, new_x |-> NoLeaf, exc |-> "KeyError", ret |-> None,
          reads |-> << >>, writes |-> << >>, io |-> << >>]
    ELSE AccessRead(op, a, data_, cl.position_map[a], new_x,
                    [cl.position_map EXCEPT ![a] = new_x], srv, cl,
                    ReadPhase(ReadNodes(cl.position_map[a], srv.L), srv.tree, cl.nonces,
                              [stash |-> cl.stash, reads |-> << >>, io |-> << >>,
                               exc |-> ""]))

\* ------------------------------------------------------------------ state

VARIABLES
    server,        \* the Server object: N, Z, num_of_buckets, L, tree
    stash,         \* Client.stash: a list of blocks
    position_map,  \* Client.position_map: address -> leaf
    nonces,        \* Client.nonces: node -> the nonce of its last encryption
    hist,          \* the Access calls made so far, with what each returned
                   \* or raised and the server indices it read and wrote
    pre,           \* stash, position_map, nonces and tree before the last call
    budget,        \* how many Access calls this behaviour makes
    tampered,      \* how many nodes the server has altered
    built,         \* the constructor calls made so far and what each raised
    codec          \* a bucket handed to the bucket codec and what came back

vars == << server, stash, position_map, nonces, hist, pre, budget, tampered,
           built, codec >>

\* Bucket([], bucket_size, num_of_blocks, True): a bucket of dummy blocks.
Bucket(bucket_size, num_of_blocks) ==
    [size |-> bucket_size,
     blocks |-> [k \in 1..bucket_size |-> DummyBlock(num_of_blocks)]]

\* No bucket has gone through the codec.
NoCodec == [bucket |-> << >>, decoded |-> << >>, done |-> FALSE]

\* The record of one constructor call.
Built(op, N, Z, exc) == [op |-> op, N |-> N, Z |-> Z, exc |-> exc]

\* Server(N, Z) followed by Client(server): every node holds an encrypted
\* bucket of Z dummy blocks, the stash is empty, and pm is what random.randint
\* gave for each address.
Constructed(N, Z, pm) ==
    LET num_of_buckets == N \div Z
        dummy_bucket == Bucket(Z, N).blocks
    IN  /\ server = [N |-> N, Z |-> Z, num_of_buckets |-> num_of_buckets,
                     L |-> ServerL(N, Z),
                     tree |-> [i \in 0..(num_of_buckets - 1) |->
                                  Encrypt(i, 0, EncodeBucket(dummy_bucket), i)]]
        /\ stash = << >>
        /\ position_map = pm
        /\ nonces = [i \in 0..(num_of_buckets - 1) |-> 0]
        /\ hist = << >>
        /\ pre = [stash |-> stash, position_map |-> position_map,
                  nonces |-> nonces, tree |-> server.tree]
        /\ tampered = 0
        /\ built = << Built("Server", N, Z, ""), Built("Client", N, Z, "") >>

\* Construction succeeds from two buckets on: with one bucket L is -1 and
\* random.randint(0, pow(2, -1) - 1) raises.
Init ==
    \E N \in 2..MaxN, Z \in 1..MaxZ :
        /\ N \div Z >= 2
        /\ N \div Z <= MaxBuckets
        /\ \E pm \in [0..(N - 1) -> 0..(NumLeaves(ServerL(N, Z)) - 1)] :
               Constructed(N, Z, pm)
        /\ budget = MaxOps
        /\ codec = NoCodec

\* "ABCD", "WXYZ" and "A||B": strings of 4 characters.
Payloads == { <<65, 66, 67, 68>>, <<87, 88, 89, 90>>, <<65, 124, 124, 66>> }

\* "ABCD" alone.
PlainPayloads == { <<65, 66, 67, 68>> }

\* Payloads the docstring of Block rules out: "ABC", "ABCDE" and None.
InvalidPayloads == { <<65, 66, 67>>, <<65, 66, 67, 68, 69>>, None }

Addresses == 0..(server.N - 1)

\* Addresses outside [0, N).
InvalidAddresses == { -1, server.N }

\* One call of Access and everything it changes.
Call(op, a, data_) ==
    /\ Len(hist) < budget
    /\ \E new_x \in 0..(NumLeaves(server.L) - 1) :
          \E r \in { Access(op, a, data_, new_x, server,
                             [stash |-> stash, position_map |-> position_map,
                              nonces |-> nonces]) } :
              /\ pre' = [stash |-> stash, position_map |-> position_map,
                         nonces |-> nonces, tree |-> server.tree]
              /\ server' = [server EXCEPT !.tree = r.tree]
              /\ stash' = r.stash
              /\ position_map' = r.position_map
              /\ nonces' = r.nonces
              /\ hist' = Append(hist,
                            [op |-> op, a |-> a, data |-> data_,
                             x |-> r.x, new_x |-> r.new_x,
                             exc |-> r.exc, ret |-> r.ret,
                             reads |-> r.reads, writes |-> r.writes, io |-> r.io])
    /\ UNCHANGED << budget, tampered, built, codec >>

store_data(id, data) == Call("write", id, data)

retrieve_data(id) == Call("read", id, None)

\* delete_data(server, id, data) hands its data on to Access, which reads it
\* for a write only.
delete_data(id) == Call("delete", id, None)

\* The server alters the bytes it holds for node i (between two calls).
Tamper(i) ==
    /\ tampered < MaxTamper
    /\ Len(hist) < budget
    /\ server' = [server EXCEPT !.tree[i].intact = FALSE]
    /\ tampered' = tampered + 1
    /\ UNCHANGED << stash, position_map, nonces, hist, pre, budget, built, codec >>

\* Valid calls: addresses in [0, N), payloads of 4 characters.
Next ==
    \E a \in Addresses :
        \/ \E d \in Payloads : store_data(a, d)
        \/ retrieve_data(a)
        \/ delete_data(a)

Spec == Init /\ [][Next]_vars

\* Geometry: every bucket count from 2 to MaxGeomBuckets, one block a bucket.
InitGeom ==
    \E N \in 2..MaxGeomBuckets :
        /\ \E pm \in [0..(N - 1) -> 0..(NumLeaves(ServerL(N, 1)) - 1)] :
               Constructed(N, 1, pm)
        /\ budget = MaxGeomOps
        /\ codec = NoCodec

SpecGeom == InitGeom /\ [][Next]_vars

\* Tampering: valid calls and a server that alters nodes.
InitTamper ==
    \E N \in 2..MaxTamperN :
        /\ \E pm \in [0..(N - 1) -> 0..(NumLeaves(ServerL(N, 1)) - 1)] :
               Constructed(N, 1, pm)
        /\ budget = MaxOps
        /\ codec = NoCodec

NextTamper ==
    \/ \E a \in Addresses :
          \/ \E d \in PlainPayloads : store_data(a, d)
          \/ retrieve_data(a)
          \/ delete_data(a)
    \/ \E i \in DOMAIN server.tree : Tamper(i)

SpecTamper == InitTamper /\ [][NextTamper]_vars

\* Invalid arguments: Access called directly with an address outside
\* [0, N), a write payload that is not 4 characters, or an unknown op, next
\* to valid calls.
InitInvalid ==
    \E N \in 2..MaxN, Z \in 1..MaxZ :
        /\ N \div Z >= 2
        /\ N \div Z <= MaxBuckets
        /\ \E pm \in [0..(N - 1) -> 0..(NumLeaves(ServerL(N, Z)) - 1)] :
               Constructed(N, Z, pm)
        /\ budget = MaxInvalidOps
        /\ codec = NoCodec

NextInvalid ==
    \/ \E a \in Addresses :
          \/ \E d \in PlainPayloads : store_data(a, d)
          \/ retrieve_data(a)
          \/ delete_data(a)
          \/ \E d \in InvalidPayloads : Call("write", a, d)
          \/ Call("foo", a, None)
    \/ \E a \in InvalidAddresses, op \in {"read", "write", "delete"} :
          Call(op, a, IF op = "write" THEN <<65, 66, 67, 68>> ELSE None)

SpecInvalid == InitInvalid /\ [][NextInvalid]_vars

\* Construction: the behaviour starts before Server(N, Z) is called.
NoServer == [N |-> 0, Z |-> 0, num_of_buckets |-> 0, L |-> 0, tree |-> << >>]

InitBuild ==
    /\ server = NoServer
    /\ stash = << >>
    /\ position_map = << >>
    /\ nonces = << >>
    /\ hist = << >>
    /\ pre = [stash |-> << >>, position_map |-> << >>, nonces |-> << >>,
              tree |-> << >>]
    /\ budget = MaxBuildOps
    /\ tampered = 0
    /\ built = << >>
    /\ codec = NoCodec

\* Server.__init__(N, Z): math.log(0, 2) raises ValueError when int(N / Z)
\* is 0; any other N gives a Server whose tree holds num_of_buckets Bucket
\* objects.
ServerInit(N, Z) ==
    /\ built = << >>
    /\ IF N \div Z = 0
       THEN /\ built' = << Built("Server", N, Z, "ValueError") >>
            /\ UNCHANGED server
       ELSE /\ built' = << Built("Server", N, Z, "") >>
            /\ server' = [N |-> N, Z |-> Z, num_of_buckets |-> N \div Z,
                          L |-> ServerL(N, Z),
                          tree |-> [i \in 0..((N \div Z) - 1) |-> Bucket(Z, N)]]
    /\ UNCHANGED << stash, position_map, nonces, hist, pre, budget, tampered, codec >>

\* Client.__init__(server): with L = -1 random.randint(0, pow(2, -1) - 1)
\* raises (ValueError or TypeError, by the version of the random module);
\* otherwise every address gets a leaf and every node an encrypted bucket of
\* dummy blocks.
ClientInit ==
    /\ Len(built) = 1 /\ built[1].exc = ""
    /\ IF server.L < 0
       THEN /\ \E exc \in {"ValueError", "TypeError"} :
                   built' = Append(built, Built("Client", server.N, server.Z, exc))
            /\ UNCHANGED << server, stash, position_map, nonces, pre >>
       ELSE /\ built' = Append(built, Built("Client", server.N, server.Z, ""))
            /\ stash' = << >>
            /\ \E pm \in [0..(server.N - 1) -> 0..(NumLeaves(server.L) - 1)] :
                   position_map' = pm
            /\ nonces' = [i \in DOMAIN server.tree |-> 0]
            /\ server' = [server EXCEPT !.tree =
                              [i \in DOMAIN server.tree |->
                                  Encrypt(i, 0, EncodeBucket(Bucket(server.Z, server.N).blocks), i)]]
            /\ pre' = [stash |-> stash', position_map |-> position_map',
                       nonces |-> nonces', tree |-> server'.tree]
    /\ UNCHANGED << hist, budget, tampered, codec >>

\* A Client exists.
ClientBuilt == Len(built) = 2 /\ built[2].exc = ""

NextBuild ==
    \/ \E N \in 0..MaxBuildN, Z \in 1..MaxZ : ServerInit(N, Z)
    \/ ClientInit
    \/ ClientBuilt /\ Next

SpecBuild == InitBuild /\ [][NextBuild]_vars

\* The bucket codec on its own: a bucket of Z blocks is joined with b"||"
\* as Access does before encrypting, and split and deserialized as Access
\* does after decrypting.  Addresses 1 and 31868 (bytes 00 00 7C 7C), leaf 0,
\* the payloads of Payloads, either flag.
CodecBlocks ==
    { Block(a, 0, d, f) : a \in {1, 31868}, d \in Payloads, f \in BOOLEAN }

InitCodec ==
    \E Z \in 1..MaxZ :
        /\ Constructed(2 * Z, Z, [a \in 0..(2 * Z - 1) |-> 0])
        /\ budget = 0
        /\ \E B \in [1..Z -> CodecBlocks] :
               codec = [bucket |-> B, decoded |-> << >>, done |-> FALSE]

RoundTrip ==
    /\ ~codec.done
    /\ codec' = [codec EXCEPT !.decoded = DecodeBucket(EncodeBucket(codec.bucket)),
                              !.done = TRUE]
    /\ UNCHANGED << server, stash, position_map, nonces, hist, pre, budget,
                    tampered, built >>

NextCodec == RoundTrip

SpecCodec == InitCodec /\ [][NextCodec]_vars

\* ----------------------------------------------------------- the claims

\* The calls made so far that returned (raised nothing).
Returned(k) == hist[k].exc = ""

Last == hist[Len(hist)]

\* What a plain dictionary holds for address a after the first k calls: the
\* payload of the last write to a with no later delete of a, else None.
RECURSIVE RefAt(_, _)
RefAt(k, a) ==
    IF k = 0 THEN None
    ELSE IF hist[k].a = a /\ hist[k].op = "write" THEN hist[k].data
    ELSE IF hist[k].a = a /\ hist[k].op = "delete" THEN None
    ELSE RefAt(k - 1, a)

\* The non-dummy blocks with address a in the stash and in the buckets of
\* the tree, and their number.
RealInStash(a) == {k \in DOMAIN stash : ~stash[k].dummy_flag /\ stash[k].a = a}

RealInBucket(blocks, a) == {k \in DOMAIN blocks : ~blocks[k].dummy_flag /\ blocks[k].a = a}

\* Counted in the buckets the client can still decrypt.
RealInTree(a) ==
    UNION { { << i, k >> : k \in RealInBucket(DecodeBucket(server.tree[i].data), a) } :
            i \in {n \in DOMAIN server.tree : server.tree[n].intact} }

RealCount(a) == Cardinality(RealInStash(a)) + Cardinality(RealInTree(a))

Reverse(s) == [k \in DOMAIN s |-> s[Len(s) + 1 - k]]

WrittenNodes(k) == [j \in DOMAIN hist[k].writes |-> hist[k].writes[j].node]

\* The separator-free payloads "ABCD" and "WXYZ".
NoSeparator(data) == \A j \in 1..(Len(data) - 1) : << data[j], data[j + 1] >> # Separator

\* C1: read-your-writes: a store(a, d) that returned, immediately followed by
\* retrieve(a), makes the retrieve return d, for every address and every
\* payload of 4 bytes.
C1_ReadYourWrites ==
    \A k \in 2..Len(hist) :
        (/\ hist[k - 1].op = "write" /\ Returned(k - 1)
         /\ hist[k].op = "read" /\ hist[k].a = hist[k - 1].a)
        => (Returned(k) /\ hist[k].ret = hist[k - 1].data)

\* C2: delete removes: after store(a, d); delete(a) no block with address a
\* is left in the stash or the tree, and a retrieve(a) that follows
\* returns None.
C2_DeleteRemoves ==
    \A k \in 2..Len(hist) :
        (/\ hist[k - 1].op = "write" /\ Returned(k - 1)
         /\ hist[k].op = "delete" /\ hist[k].a = hist[k - 1].a)
        => /\ Returned(k)
           /\ k = Len(hist) => RealCount(hist[k].a) = 0
           /\ (k < Len(hist) /\ hist[k + 1].op = "read" /\ hist[k + 1].a = hist[k].a)
                 => (Returned(k + 1) /\ hist[k + 1].ret = None)

\* C3: the ORAM behaves like a plain address-to-value map: every Access on a
\* returns what a reference dictionary holds for a at that moment, so a call
\* on another address b (a delete or retrieve of a never-written b included)
\* never changes what is later returned for a.  Stated for the calls that
\* return, in behaviours that store separator-free payloads only.
C3_PlainMap ==
    \A k \in DOMAIN hist :
        (/\ Returned(k)
         /\ \A j \in 1..k : hist[j].op = "write" => NoSeparator(hist[j].data))
        => hist[k].ret = RefAt(k - 1, hist[k].a)

\* C4: block uniqueness: after every Access that returns, stash and tree
\* together hold at most one non-dummy block for each address in [0, N),
\* and the stash holds at most N blocks.
C4_BlockUniqueness ==
    (hist # << >> /\ Returned(Len(hist)))
    => /\ \A a \in Addresses : RealCount(a) <= 1
       /\ Len(stash) <= server.N

\* C5: an Access that aborts because a bucket of the read path fails
\* authentication leaves stash and position map exactly as they were before
\* the call.
C5_AbortLeavesClientUnchanged ==
    (hist # << >> /\ Last.exc = "InvalidTag")
    => (stash = pre.stash /\ position_map = pre.position_map)

\* An Access whose arguments are invalid: the address is outside [0, N), a
\* write has no payload of exactly 4 bytes, or the op is unknown.
InvalidCall(h) ==
    \/ h.a \notin Addresses
    \/ h.op = "write" /\ (h.data = None \/ Len(h.data) # 4)
    \/ h.op \notin {"read", "write", "delete"}

\* C6: invalid input is rejected before anything happens: the call raises,
\* reads and writes no server node, and leaves position map, stash, nonces
\* and tree unchanged.
C6_InvalidInputRejected ==
    (hist # << >> /\ InvalidCall(Last))
    => /\ Last.exc # ""
       /\ Last.reads = << >> /\ Last.writes = << >>
       /\ position_map = pre.position_map /\ stash = pre.stash
       /\ nonces = pre.nonces /\ server.tree = pre.tree

\* C7: for every admissible N every node index an Access reads or writes is
\* a valid index of the server's tree, so no Access fails on an out-of-range
\* node.
C7_NodesInRange ==
    \A k \in DOMAIN hist :
        /\ hist[k].exc # "IndexError"
        /\ \A j \in DOMAIN hist[k].reads : hist[k].reads[j] < server.num_of_buckets
        /\ \A j \in DOMAIN hist[k].writes : hist[k].writes[j].node < server.num_of_buckets

\* C8: the nodes an Access reads are exactly the L + 1 nodes of the
\* root-to-leaf path of the old leaf x, from node 0 down to node
\* (2^L - 1) + x: the nodes get_path_leaf_to_root(x, L) yields and the Access
\* writes back; with L = 0 that is the single node 0.
C8_ReadsExactlyThePath ==
    \A k \in DOMAIN hist :
        Returned(k)
        => /\ Len(hist[k].reads) = server.L + 1
           /\ hist[k].reads = Reverse(get_path_leaf_to_root(hist[k].x, server.L))
           /\ hist[k].reads[Len(hist[k].reads)] = (Pow2(server.L) - 1) + hist[k].x
           /\ WrittenNodes(k) = get_path_leaf_to_root(hist[k].x, server.L)

\* C9: access-pattern obliviousness: the server indices one Access reads and
\* then writes, and the size of each bucket written, are a function of the
\* old leaf alone: two calls with the same old leaf touch the same nodes in
\* the same order, whatever the op, address, payload and stash.
C9_Oblivious ==
    \A i, j \in DOMAIN hist :
        hist[i].x = hist[j].x
        => (hist[i].reads = hist[j].reads /\ hist[i].writes = hist[j].writes)

\* C10: constant ciphertext footprint: after construction and after every
\* Access every node holds one bucket of Z blocks of 13 bytes each, so
\* len(server.tree[i]) is the same for every node and never changes.
C10_ConstantFootprint ==
    \A i \in DOMAIN server.tree :
        /\ CtLen(server.tree[i]) = server.Z * 13 + 2 * (server.Z - 1) + TagLen
        /\ CtLen(server.tree[i]) = CtLen(pre.tree[i])

\* C11: no dummies in the stash: after every Access that returns (read,
\* write or delete, block found or not) every block of the stash has
\* dummy_flag = false.
C11_NoDummiesInStash ==
    (hist # << >> /\ Returned(Len(hist)))
    => \A k \in DOMAIN stash : ~stash[k].dummy_flag

\* An Access returned and left blocks in a stash that held blocks before it.
C11_Witness ==
    /\ hist # << >> /\ Returned(Len(hist))
    /\ stash # << >> /\ pre.stash # << >>

\* C12: position-map totality: in every reachable state the position map
\* has an entry for every address in [0, N) and for no other, and every entry
\* is a leaf index in [0, 2^L).
C12_PositionMapTotal ==
    /\ DOMAIN position_map = 0..(server.N - 1)
    /\ \A a \in DOMAIN position_map :
           position_map[a] \in 0..(Pow2(server.L) - 1)

\* A call with an address outside [0, N) was followed by an Access that
\* returned and remapped its address.
C12_Witness ==
    /\ Len(hist) = 2
    /\ hist[1].a \notin Addresses
    /\ Returned(2)
    /\ position_map # pre.position_map

\* C13: construction is rejected for too-small configurations: Server(N, Z)
\* with N // Z < 2 raises, so no Server with num_of_buckets < 2 exists.
C13_SmallConfigRejected ==
    /\ \A k \in DOMAIN built :
           (built[k].op = "Server" /\ built[k].N \div built[k].Z < 2)
           => built[k].exc # ""
    /\ server # NoServer => server.num_of_buckets >= 2

\* C14: bucket codec round trip: joining the serialized blocks of a bucket
\* of Z blocks with "||", splitting the result on "||" and deserializing each
\* piece yields the same Z blocks, field by field and in order.
C14_CodecRoundTrip ==
    codec.done
    => /\ Len(codec.decoded) = Len(codec.bucket)
       /\ codec.decoded = codec.bucket

\* C15: tampering with the root is detected and permanent: once the
\* ciphertext of node 0 has been altered every Access raises InvalidTag,
\* writes nothing, and the altered ciphertext stays where it is.
C15_RootTamperPermanent ==
    [][ ~server.tree[0].intact
        => /\ ~server'.tree[0].intact
           /\ hist' # hist
                 => /\ hist'[Len(hist')].exc = "InvalidTag"
                    /\ hist'[Len(hist')].writes = << >>
                    /\ server'.tree = server.tree ]_vars

\* The root was altered and two Access calls in a row have failed on it.
C15_Witness ==
    /\ ~server.tree[0].intact
    /\ Len(hist) >= 2
    /\ hist[Len(hist)].exc = "InvalidTag" /\ hist[Len(hist)].reads = << 0 >>
    /\ hist[Len(hist) - 1].exc = "InvalidTag" /\ hist[Len(hist) - 1].reads = << 0 >>

\* The real blocks, as (address, payload), held in a stash and in the
\* buckets of a tree.
RealBlocks(st, tree) ==
    { << st[k].a, st[k].data >> : k \in {j \in DOMAIN st : ~st[j].dummy_flag} }
    \cup UNION { { << b.a, b.data >> :
                      b \in { DecodeBucket(tree[i].data)[k] :
                                k \in {j \in DOMAIN DecodeBucket(tree[i].data) :
                                          ~DecodeBucket(tree[i].data)[j].dummy_flag} } } :
                  i \in DOMAIN tree }

\* C16: delete of an absent block is a no-op on contents: a delete that
\* finds no block with its address removes no real block, so stash and tree
\* hold the same real blocks after it as before.  Stated for behaviours that
\* store separator-free payloads only.
C16_DeleteAbsentNoOp ==
    (/\ hist # << >> /\ Returned(Len(hist))
     /\ Last.op = "delete" /\ Last.ret = None
     /\ \A j \in DOMAIN hist : hist[j].op = "write" => NoSeparator(hist[j].data))
    => RealBlocks(stash, server.tree) = RealBlocks(pre.stash, pre.tree)

\* Node n lies on the root-to-leaf path of leaf x.
OnPath(n, x) ==
    \E l \in DOMAIN get_path_leaf_to_root(x, server.L) :
        get_path_leaf_to_root(x, server.L)[l] = n

\* The real blocks the bucket of node i decodes to.
RealOfNode(i) ==
    { DecodeBucket(server.tree[i].data)[k] :
        k \in {j \in DOMAIN DecodeBucket(server.tree[i].data) :
                  ~DecodeBucket(server.tree[i].data)[j].dummy_flag} }

\* C17: path invariant: after construction and after every Access that
\* returns, every real block in the bucket of node n has n on the
\* root-to-leaf path of position_map[block.a], and an Access on a finds the
\* block of a if stash or tree held one.
C17_PathInvariant ==
    (hist = << >> \/ Returned(Len(hist)))
    => /\ \A i \in DOMAIN server.tree : \A b \in RealOfNode(i) :
              /\ b.a \in DOMAIN position_map
              /\ OnPath(i, position_map[b.a])
       /\ (hist # << >> /\ Last.op = "read"
             /\ \E p \in RealBlocks(pre.stash, pre.tree) : p[1] = Last.a)
           => Last.ret # None

\* The bucket of node i holds a dummy block.
HasDummy(i) ==
    \E k \in DOMAIN DecodeBucket(server.tree[i].data) :
        DecodeBucket(server.tree[i].data)[k].dummy_flag

\* C18: greedy eviction is maximal per bucket: after an Access that returns,
\* no bucket it wrote holds a dummy while a real block eligible for that
\* node (the node is on the path of the block's mapped leaf) is left in the
\* stash, and none holds a dummy while a block eligible for it sits in a
\* bucket written later, nearer the root.
C18_GreedyEviction ==
    (hist # << >> /\ Returned(Len(hist)))
    => /\ \A k \in DOMAIN stash : \A l \in DOMAIN Last.writes :
              (/\ ~stash[k].dummy_flag
               /\ stash[k].a \in DOMAIN position_map
               /\ OnPath(Last.writes[l].node, position_map[stash[k].a]))
              => ~HasDummy(Last.writes[l].node)
       /\ \A l \in DOMAIN Last.writes : \A b \in RealOfNode(Last.writes[l].node) :
              \A d \in 1..(l - 1) :
                  (/\ b.a \in DOMAIN position_map
                   /\ OnPath(Last.writes[d].node, position_map[b.a]))
                  => ~HasDummy(Last.writes[d].node)

\* An Access returned and left a real block in the stash: the root it wrote
\* is on every path.
C18_Witness ==
    /\ hist # << >> /\ Returned(Len(hist))
    /\ Last.writes # << >>
    /\ \E k \in DOMAIN stash : ~stash[k].dummy_flag /\ stash[k].a \in Addresses

\* C19: ordering inside one Access: every read of the server comes before
\* the first write; an Access that returns writes the leaf of the old leaf x
\* first and then the parent of the node before, up to node 0, each node of
\* the path once; no node off the path is ever written.
C19_ReadsThenWrites ==
    \A k \in DOMAIN hist :
        /\ \A i, j \in DOMAIN hist[k].io :
               (i < j /\ hist[k].io[i].op = "write") => hist[k].io[j].op = "write"
        /\ \A j \in DOMAIN hist[k].writes : OnPath(hist[k].writes[j].node, hist[k].x)
        /\ Returned(k)
             => /\ Len(hist[k].writes) = server.L + 1
                /\ hist[k].writes[1].node = (Pow2(server.L) - 1) + hist[k].x
                /\ hist[k].writes[Len(hist[k].writes)].node = 0
                /\ \A j \in 2..Len(hist[k].writes) :
                       hist[k].writes[j].node = (hist[k].writes[j - 1].node - 1) \div 2

\* An Access on a tree of two levels returned: two reads, then two writes.
C19_Witness ==
    /\ hist # << >> /\ Returned(Len(hist))
    /\ server.L >= 1
    /\ Len(Last.io) = 2 * (server.L + 1)
    /\ Last.io[server.L + 1].op = "read" /\ Last.io[server.L + 2].op = "write"

\* C20: no partial eviction: an Access that ends with an error, whatever the
\* error, leaves the server tree and the client's nonces as they were before
\* the call: it has written no node.
C20_NoPartialEviction ==
    (hist # << >> /\ Last.exc # "")
    => /\ server.tree = pre.tree
       /\ nonces = pre.nonces
       /\ Last.writes = << >>

\* C21: nonce/ciphertext synchrony: with a server that stores bytes
\* verbatim, between Access calls nonces[i] is for every node i the nonce
\* under which the ciphertext in server.tree[i] was encrypted with key i and
\* the associated data of node i, so every bucket decrypts; a nonce is
\* replaced only together with the write of its node, and the ciphertext a
\* node held before it was rewritten no longer decrypts.
C21_NonceSync ==
    /\ DOMAIN nonces = DOMAIN server.tree
    /\ \A i \in DOMAIN server.tree :
           /\ DecryptOk(i, nonces[i], server.tree[i], i)
           /\ hist # << >>
                => /\ nonces[i] # pre.nonces[i]
                        <=> \E j \in DOMAIN Last.writes : Last.writes[j].node = i
                   /\ server.tree[i] # pre.tree[i]
                        => ~DecryptOk(i, nonces[i], pre.tree[i], i)

====
